---- MODULE Spec2Model ----
(***************************************************************************)
(* Model of the browser RAG chat client of src/src/main.js.                *)
(*                                                                         *)
(*   SpecChunk / SpecChunkFair : chunkText (main.js:208-236), one action   *)
(*                               per loop iteration, inputs drawn in Init. *)
(*   Spec                      : the event handlers of the page            *)
(*                               (loadModel, pdfInput.onchange,            *)
(*                               btnSend.onclick/runChatTurn,              *)
(*                               btnStop.onclick), one action per          *)
(*                               synchronous run between two awaits.       *)
(***************************************************************************)
EXTENDS Integers, Sequences, FiniteSets, TLC

VARIABLES
  \* ---- chunkText(text, size, overlap) ----
  text,       \* the input string, a sequence of one-character strings
  size,       \* parameter size
  overlap,    \* parameter overlap
  ci,         \* the cursor i (main.js:210)
  chunks,     \* the local array chunks (main.js:209), trimmed windows
  windows,    \* per pushed chunk: the arguments <<i, end>> of substring
  dropped,    \* TRUE once a push was not recorded (more than MaxChunks)
  cpc,        \* "off" | "loop" | "done"
  result,     \* the returned array (main.js:235)
  \* ---- the page ----
  wllama,          \* the global wllama: 0 (null) or the runtime a load created
  rt,              \* per runtime: the model it holds and its embeddings mode
  selector,        \* modelSelector.value
  btnLoad,         \* btnLoad.disabled
  btnSend,         \* btnSend.disabled
  btnStop,         \* btnStop.disabled
  abortController, \* the global abortController: 0 (null) or the turn that made it
  aborted,         \* per controller: signal.aborted
  docState,        \* the global docState
  messages,        \* the global messages
  warn,            \* warnEl.textContent
  turn,            \* the runChatTurn invocations
  loader,          \* the loadModel invocations
  ix,              \* the pdfInput.onchange invocation
  left,            \* how many turns, load clicks and uploads are still to come
  \* ---- the ranking of main.js:405-412 on its own ----
  rk,              \* queryEmbedding, docState.embeddings, scores and top3
  \* ---- ensureChunkSize and processChunkSafe, main.js:306-363, on their own ----
  sx,              \* the texts still to handle and the arrays they are pushed to
  \* ---- runConcurrent, main.js:260-273, on its own ----
  rc,              \* the loop's position, the promises pending, the results
  \* ---- two overlapping runs of pdfInput.onchange, main.js:280-385 ----
  up               \* the position and the local arrays of each, and docState

chunkTextVars == <<text, size, overlap, ci, chunks, windows, dropped, cpc, result>>

chunkVars == <<chunkTextVars, rk, sx, rc, up>>

pageVars == <<wllama, rt, selector, btnLoad, btnSend, btnStop, abortController,
              aborted, docState, messages, warn, turn, loader, ix, left>>

vars == <<chunkVars, pageVars>>

----------------------------------------------------------------------------
(* Bounds of the model *)

\* chunks recorded per run; later pushes only set `dropped`
MaxChunks == 6
\* long inputs have LenStep * k + r characters, k in 0..MaxLenSteps
MaxLenSteps == 12
LenStep == 100
\* short inputs (for small sizes) have 0..MaxShortLen characters
MaxShortLen == 24
\* user events in one run of the page: chat turns, clicks on Load, uploads,
\* MaxEvents in all and at most MaxPerKind of one kind
MaxEvents == 3
MaxPerKind == 2
\* chunks a stream yields at most
MaxStream == 1
\* chunks a stream is fed with at most, when only the stream runs
MaxFeed == 3

(* Program constants *)
DefaultSize == 600
DefaultOverlap == 100
LookBack == 100
LookAhead == 20
MinFragment == 10

----------------------------------------------------------------------------
(* JavaScript string primitives used by chunkText *)

Whitespace == {" ", "\n"}

ClampIdx(n, len) == IF n < 0 THEN 0 ELSE IF n > len THEN len ELSE n

\* String.prototype.substring: both arguments clamped to [0, length],
\* swapped when start > end.
substring(t, a, b) ==
  LET a1 == ClampIdx(a, Len(t))
      b1 == ClampIdx(b, Len(t))
      lo == IF a1 <= b1 THEN a1 ELSE b1
      hi == IF a1 <= b1 THEN b1 ELSE a1
  IN SubSeq(t, lo + 1, hi)

\* String.prototype.lastIndexOf(pat): 0-based index of the last occurrence,
\* -1 when there is none.
lastIndexOf(w, pat) ==
  LET n == Len(w)
      m == Len(pat)
      At(k) == \A j \in 1..m : w[k + j - 1] = pat[j]
      Hits == {k \in 1..(n - m + 1) : At(k)}
  IN IF Hits = {} THEN -1
     ELSE (CHOOSE k \in Hits : \A j \in (k + 1)..(n - m + 1) : ~At(j)) - 1

\* String.prototype.trim
trim(t) ==
  LET n == Len(t)
      Solid == {k \in 1..n : t[k] \notin Whitespace}
  IN IF Solid = {} THEN <<>>
     ELSE LET lo == CHOOSE k \in 1..n :
                      t[k] \notin Whitespace /\ \A j \in 1..(k - 1) : t[j] \in Whitespace
              hi == CHOOSE k \in 1..n :
                      t[k] \notin Whitespace /\ \A j \in (k + 1)..n : t[j] \in Whitespace
          IN SubSeq(t, lo, hi)

----------------------------------------------------------------------------
(* chunkText, main.js:208-236 *)

\* main.js:217-219
breakIdx(w) ==
  IF lastIndexOf(w, <<".", " ">>) # -1 THEN lastIndexOf(w, <<".", " ">>) + 1
  ELSE IF lastIndexOf(w, <<"\n">>) # -1 THEN lastIndexOf(w, <<"\n">>)
  ELSE lastIndexOf(w, <<" ">>)

\* main.js:213-224: the cut point `end` of the window starting at i
CutPoint(t, i, sz) ==
  LET end == i + sz
  IN IF end < Len(t)
     THEN LET searchWindow == substring(t, end - LookBack, end + LookAhead)
              b == breakIdx(searchWindow)
          IN IF b # -1 THEN (end - LookBack) + b + 1 ELSE end
     ELSE end

\* NextCursor with the forced cursor one character past the cut
NextCursorSkips(t, end, ov) ==
  LET i1 == IF end - ov < 0 THEN 0 ELSE end - ov
  IN IF end <= i1 + ov /\ end < Len(t) THEN end + 1 ELSE i1

\* main.js:227-231: the cursor after a window cut at `end`
NextCursor(t, end, ov) ==
  LET i1 == IF end - ov < 0 THEN 0 ELSE end - ov
  IN IF end <= i1 + ov /\ end < Len(t) THEN end ELSE i1

\* main.js:235
KeepFragment(c) == Len(c) > MinFragment

\* one iteration of the while loop, main.js:212-232
ChunkIter ==
  /\ cpc = "loop"
  /\ ci < Len(text)
  /\ LET end == CutPoint(text, ci, size)
     IN /\ IF Len(chunks) < MaxChunks
           THEN /\ chunks' = Append(chunks, trim(substring(text, ci, end)))
                /\ windows' = Append(windows, <<ci, end>>)
                /\ UNCHANGED dropped
           ELSE /\ dropped' = TRUE
                /\ UNCHANGED <<chunks, windows>>
        /\ ci' = NextCursor(text, end, overlap)
  /\ UNCHANGED <<text, size, overlap, cpc, result, rk, sx, rc, up>>
  /\ UNCHANGED pageVars

\* loop exit and the filter of main.js:235
ChunkReturn ==
  /\ cpc = "loop"
  /\ ~(ci < Len(text))
  /\ result' = SelectSeq(chunks, KeepFragment)
  /\ cpc' = "done"
  /\ UNCHANGED <<text, size, overlap, ci, chunks, windows, dropped, rk, sx, rc, up>>
  /\ UNCHANGED pageVars

----------------------------------------------------------------------------
(* Inputs of chunkText *)

Separators == {<<" ">>, <<"\n">>, <<".", " ">>}

\* n characters: letters, with the separator sep ending every run of p
\* characters (p = 0: letters only)
PeriodicText(n, p, sep) ==
  [k \in 1..n |->
     IF p = 0 THEN "a"
     ELSE LET r == (k - 1) % p
          IN IF r >= p - Len(sep) THEN sep[r - (p - Len(sep)) + 1] ELSE "a"]

ParisText ==
  <<"P","a","r","i","s"," ","i","s"," ","t","h","e"," ","c","a","p","i","t",
    "a","l"," ","o","f"," ","F","r","a","n","c","e","."," ","L","y","o","n",
    " ","i","s"," ","a"," ","m","a","j","o","r"," ","c","i","t","y",".">>

LongLens == {LenStep * k + r : k \in 0..MaxLenSteps, r \in {0, 5, 11, 50}}

LongTexts ==
  {PeriodicText(n, 0, <<" ">>) : n \in LongLens}
  \cup {PeriodicText(n, p, s) : n \in LongLens, p \in {7, 64, 150}, s \in Separators}

ShortTexts ==
  {ParisText}
  \cup {PeriodicText(n, 0, <<" ">>) : n \in 0..MaxShortLen}
  \cup {PeriodicText(n, 7, s) : n \in 0..MaxShortLen, s \in Separators}

----------------------------------------------------------------------------
(* The page: state *)

Models == {"mA", "mB"}
\* the loadModel invocations: the one of DOMContentLoaded and those of clicks
\* on btnLoad, of which a second can begin while the first awaits exit()
Loaders == {"auto", "click", "click2"}
ClickLoaders == {"click", "click2"}
Slots == {1, 2}                \* runChatTurn invocations that can overlap
Docs == {"d1", "d2"}

\* the fragments of a document after chunkText and token-size correction
DocChunks(d) == IF d = "d1" THEN <<"d1c1">> ELSE <<"d2c1", "d2c2">>

\* the text typed for the k-th turn
QueryOf(k) == IF k = 1 THEN "q1" ELSE IF k = 2 THEN "q2" ELSE "q3"

\* the k-th token a stream yields, and the text of a non-streaming completion
Tok(k) == IF k = 1 THEN "t1" ELSE IF k = 2 THEN "t2" ELSE "t3"
FallbackText == <<"fb">>

\* main.js:63-68
SystemMsg == [role |-> "system", text |-> <<"sys">>, block |-> FALSE, frags |-> <<>>]
\* main.js:416-418 and 427: userText + contextToInject, as the sequence of
\* its parts: the text typed, then the label and the fragments of the block
ContextLabel == "Context from document:"

\* PromptWithContext with the block put before the text typed
PromptPrepends(q, c) ==
  (IF c.block THEN <<ContextLabel>> \o c.frags ELSE <<>>) \o <<q>>

PromptWithContext(q, c) ==
  <<q>> \o (IF c.block THEN <<ContextLabel>> \o c.frags ELSE <<>>)

\* main.js:428
UserMsg(q, c) ==
  [role |-> "user", text |-> PromptWithContext(q, c), block |-> c.block,
   frags |-> c.frags]
AssistantMsg(acc) == [role |-> "assistant", text |-> acc, block |-> FALSE, frags |-> <<>>]

\* contextToInject: "" or the labelled block with its fragments
NoContext == [block |-> FALSE, frags |-> <<>>]

\* main.js:52-57
EmptyDoc == [name |-> "", chunks |-> <<>>, embeddings |-> <<>>, modelUrl |-> ""]

\* stopAt of a turn nobody stopped
NotStopped == <<"-">>

\* the locals of one runChatTurn invocation and what it put on the page:
\* userDiv and div are its two bubbles; retr tells how retrieval went and
\* base is the length of the history when the turn was submitted
IdleTurn == [pc |-> "idle", q |-> "", ctx |-> NoContext, acc |-> <<>>,
             userDiv |-> <<>>, retr |-> "none", base |-> 0,
             div |-> [text |-> <<>>, mark |-> "none"], n |-> 0,
             by |-> "none", on |-> "null", last |-> "none", stale |-> FALSE,
             stopAt |-> NotStopped, pend |-> <<>>]

IdleIx == [pc |-> "idle", doc |-> "", k |-> 0, safe |-> <<>>, embs |-> <<>>,
           by |-> "none", on |-> "null"]

\* the user events a run of the page is given
Budgets ==
  {b \in [turns : 0..MaxPerKind, loads : 0..MaxPerKind, uploads : 0..MaxPerKind] :
     b.turns + b.loads + b.uploads = MaxEvents}

\* main.js:40-68 and the controls as the page starts: Send and Stop disabled,
\* the DOMContentLoaded handler waiting for refreshModelList (main.js:190-193)
PageStart(budget) ==
  /\ wllama = "null"
  /\ rt = [l \in Loaders |->
             [model |-> "none", emb |-> FALSE, exited |-> FALSE, batch |-> ""]]
  /\ selector = "mA"
  /\ btnLoad = FALSE
  /\ btnSend = TRUE
  /\ btnStop = TRUE
  /\ abortController = 0
  /\ aborted = [t \in Slots |-> FALSE]
  /\ docState = EmptyDoc
  /\ messages = <<SystemMsg>>
  /\ warn = ""
  /\ turn = [t \in Slots |-> IdleTurn]
  /\ loader = [l \in Loaders |->
                 [pc |-> IF l = "auto" THEN "refresh" ELSE "idle",
                  url |-> "", target |-> "null"]]
  /\ ix = IdleIx
  /\ left = budget

PageInit == \E b \in Budgets : PageStart(b)

\* the page with no user event to come
NoBudget == [turns |-> 0, loads |-> 0, uploads |-> 0]

\* the model a runtime call issued now is served by ("none": no runtime, or
\* a runtime that holds no model)
ServingModel == IF wllama = "null" THEN "none" ELSE rt[wllama].model

----------------------------------------------------------------------------
(* The runtime's embeddings and cosineSimilarity, main.js:241-251 *)

TextCode(x) ==
  IF x \in {"q1", "d1c1"} THEN 1
  ELSE IF x \in {"q2", "d2c1"} THEN 2
  ELSE 3

\* wllama.embeddings(text) under model m: a vector that depends on both
VecOf(m, x) == IF m = "mA" THEN <<TextCode(x), 1>> ELSE <<1, TextCode(x) + 1>>

\* the value wllama.embeddings(x) returns under model m
Embedding(m, x) == [by |-> m, of |-> x, vec |-> VecOf(m, x)]

RECURSIVE SumTo(_, _)
SumTo(f, n) == IF n = 0 THEN 0 ELSE f[n] + SumTo(f, n - 1)

\* the loop of main.js:245-249 over i < v1.length
Dot(v1, v2) == SumTo([i \in 1..Len(v1) |-> v1[i] * v2[i]], Len(v1))

\* cosineSimilarity(v1, v2) = dot / (sqrt(m1) * sqrt(m2)), kept as the exact
\* fraction num/den of its signed square dot*|dot| / (m1*m2), which orders
\* scores as the quotient does
\* the three sums run over i < v1.length: a v2 that is shorter is read past
\* its end (undefined, so every sum with it is NaN), a v2 that is longer is
\* cut; 0 / 0 is NaN too
NaN == [nan |-> TRUE, num |-> 0, den |-> 1]

\* a variant that divides by the first vector's magnitude alone
cosineLeftNorm(v1, v2) ==
  IF Len(v2) < Len(v1) THEN NaN
  ELSE LET dot == Dot(v1, v2)
           m1 == Dot(v1, v1)
       IN IF m1 = 0 THEN NaN
          ELSE [nan |-> FALSE,
                num |-> dot * (IF dot < 0 THEN -dot ELSE dot),
                den |-> m1 * m1]

cosineSimilarity(v1, v2) ==
  IF Len(v2) < Len(v1) THEN NaN
  ELSE LET n == Len(v1)
           dot == Dot(v1, v2)
           m1 == Dot(v1, v1)
           m2 == SumTo([i \in 1..n |-> v2[i] * v2[i]], n)
       IN IF m1 * m2 = 0 THEN NaN
          ELSE [nan |-> FALSE,
                num |-> dot * (IF dot < 0 THEN -dot ELSE dot),
                den |-> m1 * m2]

\* a comparator that sorts by rising score
ScoreLess(a, b) == ~a.nan /\ ~b.nan /\ a.num * b.den < b.num * a.den

\* b.score - a.score < 0 in the comparator of main.js:411 called as (b, a):
\* a is sorted before b; a difference with NaN is NaN, which sort reads as 0
ScoreGreater(a, b) == ~a.nan /\ ~b.nan /\ a.num * b.den > b.num * a.den

\* main.js:405-412: scores sorted by b.score - a.score (a stable sort), then
\* slice(0, 3); the result is the sequence of idx
TopK == 3

\* Array.prototype.sort with the comparator of main.js:411 when the
\* comparator is a consistent order: the indices by falling score, equal
\* scores in their original order
StableOrder(score) ==
  LET n == Len(score)
      Before(j, i) == ScoreGreater(score[j], score[i])
                        \/ (~ScoreGreater(score[i], score[j]) /\ j < i)
      rank == [i \in 1..n |-> Cardinality({j \in 1..n : j # i /\ Before(j, i)}) + 1]
  IN [r \in 1..n |-> CHOOSE i \in 1..n : rank[i] = r]

\* slice(0, 3) of main.js:412
Slice3(sorted) == SubSeq(sorted, 1, IF Len(sorted) < TopK THEN Len(sorted) ELSE TopK)

Top3(queryEmbedding, embeddings) ==
  LET n == Len(embeddings)
      score == [i \in 1..n |-> cosineSimilarity(queryEmbedding.vec, embeddings[i].vec)]
  IN Slice3(StableOrder(score))

\* main.js:416-418
ContextBlock(idxs) == [block |-> TRUE, frags |-> [r \in 1..Len(idxs) |-> docState.chunks[idxs[r]]]]

----------------------------------------------------------------------------
(* loadModel, main.js:94-167, and the handlers that call it *)

\* main.js:99, the number 1024 (the values of n_batch are kept as strings)
DefaultNBatch == "1024"

\* the argument loadModel is called with: none from the DOMContentLoaded
\* handler (main.js:192), the click event from btnLoad.onclick (main.js:189)
ForcedNBatch(l) == IF l = "auto" THEN "undefined" ELSE "MouseEvent"

\* main.js:99: forcedNBatch || 1024, passed as n_batch and n_ubatch
batchToUse(forcedNBatch) ==
  IF forcedNBatch \in {"undefined", "null", "0"} THEN DefaultNBatch ELSE forcedNBatch

\* main.js:114-145: runs to the await of loadModelFromUrl
LoadBegin(l, sel, exited) ==
  /\ btnLoad' = TRUE
  /\ warn' = ""
  /\ wllama' = l
  /\ rt' = [r \in Loaders |->
              IF r = l
              THEN [model |-> "none", emb |-> FALSE, exited |-> FALSE,
                    batch |-> batchToUse(ForcedNBatch(l))]
              ELSE IF r = exited
                   THEN [model |-> "none", emb |-> rt[r].emb, exited |-> TRUE,
                         batch |-> rt[r].batch]
              ELSE rt[r]]
  /\ loader' = [loader EXCEPT ![l] = [pc |-> "load", url |-> sel, target |-> "null"]]

\* main.js:95-112: the call of loadModel up to its first await
LoadStart(l, sel) ==
  IF btnLoad /\ wllama = "null"
  THEN /\ loader' = [loader EXCEPT ![l] = [pc |-> "idle", url |-> "", target |-> "null"]]
       /\ UNCHANGED <<btnLoad, warn, wllama, rt>>
  ELSE IF wllama # "null"
  THEN /\ loader' = [loader EXCEPT ![l] = [pc |-> "exit", url |-> "", target |-> wllama]]
       /\ UNCHANGED <<btnLoad, warn, wllama, rt>>
  ELSE LoadBegin(l, sel, "null")

\* the user picks another option of modelSelector
SelectModel(m) ==
  /\ m # selector
  /\ selector' = m
  /\ UNCHANGED <<wllama, rt, btnLoad, btnSend, btnStop, abortController, aborted,
                 docState, messages, warn, turn, loader, ix, left>>
  /\ UNCHANGED chunkVars

\* main.js:172-193: refreshModelList returns (the list replaces the options,
\* or the fetch failed and they stay), then loadModel() is called
RefreshDone(listed) ==
  /\ loader["auto"].pc = "refresh"
  /\ LET sel == IF listed THEN "mA" ELSE selector
     IN /\ selector' = sel
        /\ LoadStart("auto", sel)
  /\ UNCHANGED <<btnSend, btnStop, abortController, aborted, docState, messages,
                 turn, ix, left>>
  /\ UNCHANGED chunkVars

\* main.js:189: a click on btnLoad
LoadClick(l) ==
  /\ ~btnLoad
  /\ loader[l].pc = "idle"
  /\ l = "click2" => loader["click"].pc # "idle"
  /\ left.loads > 0
  /\ left' = [left EXCEPT !.loads = @ - 1]
  /\ LoadStart(l, selector)
  /\ UNCHANGED <<selector, btnSend, btnStop, abortController, aborted, docState,
                 messages, turn, ix>>
  /\ UNCHANGED chunkVars

\* main.js:107-112: wllama.exit() returned or threw; then on to the load
ExitDone(l) ==
  /\ loader[l].pc = "exit"
  /\ LoadBegin(l, selector, loader[l].target)
  /\ UNCHANGED <<selector, btnSend, btnStop, abortController, aborted, docState,
                 messages, turn, ix, left>>
  /\ UNCHANGED chunkVars

\* Invalidate with the whole index dropped instead of its embeddings
InvalidateDropsChunks(d, modelUrl) ==
  IF Len(d.chunks) > 0 /\ d.modelUrl # modelUrl
  THEN [d EXCEPT !.embeddings = <<>>, !.chunks = <<>>]
  ELSE d

\* main.js:152-156
Invalidate(d, modelUrl) ==
  IF Len(d.chunks) > 0 /\ d.modelUrl # modelUrl
  THEN [d EXCEPT !.embeddings = <<>>]
  ELSE d

\* a runtime on which exit() was called
Exited(l) ==
  \/ rt[l].exited
  \/ \E o \in Loaders : loader[o].pc = "exit" /\ loader[o].target = l

\* main.js:147-161: loadModelFromUrl returned (it does not on a runtime that
\* was exited meanwhile)
LoadOk(l) ==
  /\ loader[l].pc = "load"
  /\ ~Exited(l)
  /\ rt' = [rt EXCEPT ![l] = [model |-> loader[l].url, emb |-> TRUE, exited |-> FALSE,
                               batch |-> rt[l].batch]]
  /\ loader' = [loader EXCEPT ![l] = [pc |-> "idle", url |-> "", target |-> "null"]]
  /\ docState' = Invalidate(docState, loader[l].url)
  /\ warn' = IF Len(docState.chunks) > 0 /\ docState.modelUrl # loader[l].url
             THEN "reindex" ELSE warn
  /\ btnSend' = FALSE
  /\ btnLoad' = FALSE
  /\ UNCHANGED <<wllama, selector, btnStop, abortController, aborted, messages,
                 turn, ix, left>>
  /\ UNCHANGED chunkVars

\* main.js:162-166: loadModelFromUrl threw
LoadFail(l) ==
  /\ loader[l].pc = "load"
  /\ loader' = [loader EXCEPT ![l] = [pc |-> "idle", url |-> "", target |-> "null"]]
  /\ btnLoad' = FALSE
  /\ UNCHANGED <<wllama, rt, selector, btnSend, btnStop, abortController, aborted,
                 docState, messages, warn, turn, ix, left>>
  /\ UNCHANGED chunkVars

----------------------------------------------------------------------------
(* pdfInput.onchange, main.js:280-385 *)

\* main.js:380-384
IxFail ==
  /\ ix' = IdleIx
  /\ warn' = "pdferr"
  /\ UNCHANGED <<docState, rt>>

\* IxPublish with the new fragments added to those of the previous index
IxPublishAppends(safe, embs) ==
  /\ docState' = [name |-> ix.doc, chunks |-> docState.chunks \o safe,
                  embeddings |-> docState.embeddings \o embs, modelUrl |-> selector]
  /\ ix' = IdleIx
  /\ UNCHANGED <<warn, rt>>

\* IxPublish with every chunk of the document, embedded or not
IxPublishAllChunks(safe, embs) ==
  /\ docState' = [name |-> ix.doc, chunks |-> DocChunks(ix.doc), embeddings |-> embs,
                  modelUrl |-> selector]
  /\ ix' = IdleIx
  /\ UNCHANGED <<warn, rt>>

\* main.js:373-379
IxPublish(safe, embs) ==
  /\ docState' = [name |-> ix.doc, chunks |-> safe, embeddings |-> embs,
                  modelUrl |-> selector]
  /\ ix' = IdleIx
  /\ UNCHANGED <<warn, rt>>

\* main.js:280-287: a file is chosen
Upload(d) ==
  /\ wllama # "null"
  /\ ix.pc = "idle"
  /\ left.uploads > 0
  /\ left' = [left EXCEPT !.uploads = @ - 1]
  /\ ix' = [IdleIx EXCEPT !.pc = "extract", !.doc = d]
  /\ UNCHANGED <<wllama, rt, selector, btnLoad, btnSend, btnStop, abortController,
                 aborted, docState, messages, warn, turn, loader>>
  /\ UNCHANGED chunkVars

\* main.js:286-331: the text is extracted (or pdf.js throws), chunked, and
\* the tokenize calls of ensureChunkSize are issued
ExtractDone(ok) ==
  /\ ix.pc = "extract"
  /\ IF ok /\ wllama # "null"
     THEN /\ ix' = [ix EXCEPT !.pc = "tokenize"]
          /\ UNCHANGED <<docState, warn, rt>>
     ELSE IxFail
  /\ UNCHANGED <<wllama, selector, btnLoad, btnSend, btnStop, abortController,
                 aborted, messages, turn, loader, left>>
  /\ UNCHANGED chunkVars

\* main.js:331-339: the tokenize calls returned (or one threw), then
\* setOptions({embeddings: true}) is issued
TokenizeDone(ok) ==
  /\ ix.pc = "tokenize"
  /\ IF ok /\ wllama # "null"
     THEN /\ ix' = [ix EXCEPT !.pc = "setopt", !.on = wllama]
          /\ UNCHANGED <<docState, warn, rt>>
     ELSE IxFail
  /\ UNCHANGED <<wllama, selector, btnLoad, btnSend, btnStop, abortController,
                 aborted, messages, turn, loader, left>>
  /\ UNCHANGED chunkVars

\* main.js:339-371: setOptions returned (or threw), then the first
\* embeddings call is issued
IxSetOptDone(ok) ==
  /\ ix.pc = "setopt"
  /\ IF ~ok THEN IxFail
     ELSE IF DocChunks(ix.doc) = <<>>
     THEN /\ IxPublish(<<>>, <<>>)
     ELSE /\ rt' = [rt EXCEPT ![ix.on].emb = TRUE]
          /\ ix' = [ix EXCEPT !.pc = "embed", !.k = 1, !.by = ServingModel, !.on = wllama]
          /\ UNCHANGED <<docState, warn>>
  /\ UNCHANGED <<wllama, selector, btnLoad, btnSend, btnStop, abortController,
                 aborted, messages, turn, loader, left>>
  /\ UNCHANGED chunkVars

\* main.js:345-379: the embedding of chunk k succeeded, or the chunk was
\* given up after its retries; then the next chunk, or the index is replaced
EmbedDone(ok) ==
  /\ ix.pc = "embed"
  /\ ok => ix.by # "none"
  /\ LET c == DocChunks(ix.doc)[ix.k]
         safe == IF ok THEN Append(ix.safe, c) ELSE ix.safe
         embs == IF ok THEN Append(ix.embs, Embedding(ix.by, c)) ELSE ix.embs
     IN IF ix.k < Len(DocChunks(ix.doc))
        THEN /\ ix' = [ix EXCEPT !.k = @ + 1, !.safe = safe, !.embs = embs,
                                 !.by = ServingModel, !.on = wllama]
             /\ UNCHANGED <<docState, warn, rt>>
        ELSE IxPublish(safe, embs)
  /\ UNCHANGED <<wllama, selector, btnLoad, btnSend, btnStop, abortController,
                 aborted, messages, turn, loader, left>>
  /\ UNCHANGED chunkVars

----------------------------------------------------------------------------
(* btnSend.onclick and runChatTurn, main.js:390-535; btnStop.onclick *)

\* the pcs at which a generation request of the turn is in flight
Generating == {"gen_create", "stream", "fallback"}

\* main.js:456-464: the options of the streaming request (temperatures in
\* tenths)
StreamNPredict == 512
StreamTempTenths == 2

StreamRequest ==
  [stream |-> TRUE, nPredict |-> StreamNPredict, temp |-> StreamTempTenths,
   abortSignal |-> TRUE]

\* main.js:500-502: the options of the non-streaming fallback request
FallbackNPredict == 128
FallbackTempTenths == 1

FallbackRequest ==
  [stream |-> FALSE, nPredict |-> FallbackNPredict, temp |-> FallbackTempTenths,
   abortSignal |-> FALSE]

\* main.js:521-527, after the try block ended as `outcome`
Finally(t, msgs, div, outcome) ==
  /\ abortController' = 0
  /\ btnStop' = TRUE
  /\ btnSend' = FALSE
  /\ messages' = msgs
  /\ turn' = [turn EXCEPT ![t] = [IdleTurn EXCEPT !.div = div, !.last = outcome]]

\* main.js:508-511 then finally
Complete(t, msgs, acc) ==
  Finally(t, Append(msgs, AssistantMsg(acc)), [text |-> acc, mark |-> "none"], "completed")

\* Catch with the user message of the failed turn taken back
CatchRollsBack(t, msgs, ac) ==
  IF ac # 0 /\ aborted[ac]
  THEN Finally(t, Append(msgs, AssistantMsg(turn[t].acc)),
               [text |-> turn[t].acc, mark |-> "stopped"], "cancelled")
  ELSE Finally(t, SubSeq(msgs, 1, Len(msgs) - 1), [text |-> <<>>, mark |-> "error"],
               "failed")

\* main.js:512-520 then finally: the catch block, entered with the global
\* abortController being ac
Catch(t, msgs, ac) ==
  IF ac # 0 /\ aborted[ac]
  THEN Finally(t, Append(msgs, AssistantMsg(turn[t].acc)),
               [text |-> turn[t].acc, mark |-> "stopped"], "cancelled")
  ELSE Finally(t, msgs, [text |-> <<>>, mark |-> "error"], "failed")

\* main.js:427-455: the user message is pushed, the controls are set for
\* generation and setOptions({embeddings: false}) is issued
BeginGenerate(t, q, c, stale) ==
  LET msgs == Append(messages, UserMsg(q, c))
  IN /\ aborted' = [aborted EXCEPT ![t] = FALSE]
     /\ IF wllama # "null"
        THEN /\ abortController' = t
             /\ btnStop' = FALSE
             /\ btnSend' = TRUE
             /\ messages' = msgs
             /\ turn' = [turn EXCEPT ![t] =
                           [IdleTurn EXCEPT !.pc = "gen_setopt", !.q = q, !.ctx = c,
                                            !.on = wllama, !.stale = stale,
                                            !.userDiv = <<q>>,
                                            !.retr = IF turn[t].pc = "idle" THEN "none"
                                                     ELSE IF c.block THEN "ok"
                                                     ELSE "failed",
                                            !.base = IF turn[t].pc = "idle"
                                                     THEN Len(messages)
                                                     ELSE turn[t].base]]
        ELSE \* wllama.createChatCompletion on null throws inside the try
             /\ abortController' = 0
             /\ btnStop' = TRUE
             /\ btnSend' = FALSE
             /\ messages' = msgs
             /\ turn' = [turn EXCEPT ![t] =
                           [IdleTurn EXCEPT !.div = [text |-> <<>>, mark |-> "error"],
                                            !.last = "failed"]]

\* RetrievalPath that does not look at the embeddings
RetrievalPathAnyIndex(d) ==
  IF Len(d.chunks) > 0 THEN "retrieve" ELSE "none"

\* main.js:394-399: what runChatTurn does about retrieval, wllama being set
RetrievalPath(d) ==
  IF Len(d.chunks) > 0
  THEN IF Len(d.embeddings) = 0 THEN "skip" ELSE "retrieve"
  ELSE "none"

\* main.js:530-535 and 390-403: a click on btnSend (or Enter) with text typed
Submit(t) ==
  /\ ~btnSend
  /\ wllama # "null"
  /\ turn[t].pc = "idle"
  /\ \A u \in Slots : u < t => turn[u].pc # "idle"
  /\ left.turns > 0
  /\ left' = [left EXCEPT !.turns = @ - 1]
  /\ LET q == QueryOf(left.turns)
         path == RetrievalPath(docState)
     IN IF path = "skip"
        THEN /\ warn' = "skipped"
             /\ BeginGenerate(t, q, NoContext, FALSE)
        ELSE IF path = "retrieve"
        THEN /\ turn' = [turn EXCEPT ![t] =
                           [IdleTurn EXCEPT !.pc = "retr_setopt", !.q = q, !.on = wllama,
                                            !.base = Len(messages)]]
             /\ UNCHANGED <<warn, abortController, aborted, btnStop, btnSend, messages>>
        ELSE /\ UNCHANGED warn
             /\ BeginGenerate(t, q, NoContext, FALSE)
  /\ UNCHANGED <<wllama, rt, selector, btnLoad, docState, loader, ix>>
  /\ UNCHANGED chunkVars

\* main.js:402-403 and 419-422: setOptions({embeddings: true}) returned or
\* threw; then embeddings(userText) is issued
RetrSetOptDone(t, ok) ==
  /\ turn[t].pc = "retr_setopt"
  /\ IF ok /\ wllama # "null"
     THEN /\ rt' = [rt EXCEPT ![turn[t].on].emb = TRUE]
          /\ turn' = [turn EXCEPT ![t] = [@ EXCEPT !.pc = "retr_embed",
                                                   !.by = ServingModel, !.on = wllama]]
          /\ UNCHANGED <<warn, abortController, aborted, btnStop, btnSend, messages>>
     ELSE /\ rt' = IF ok THEN [rt EXCEPT ![turn[t].on].emb = TRUE] ELSE rt
          /\ warn' = "ragerr"
          /\ BeginGenerate(t, turn[t].q, NoContext, FALSE)
  /\ UNCHANGED <<wllama, selector, btnLoad, docState, loader, ix, left>>
  /\ UNCHANGED chunkVars

\* main.js:403-422: embeddings(userText) returned or threw
RetrEmbedDone(t, ok) ==
  /\ turn[t].pc = "retr_embed"
  /\ ok => turn[t].by # "none"
  /\ IF ok
     THEN LET queryEmbedding == Embedding(turn[t].by, turn[t].q)
              top3 == Top3(queryEmbedding, docState.embeddings)
              stale == \/ \E i \in 1..Len(docState.embeddings) :
                            docState.embeddings[i].by # queryEmbedding.by
                       \/ (docState.embeddings # <<>>
                             /\ docState.modelUrl # queryEmbedding.by)
          IN /\ UNCHANGED warn
             /\ BeginGenerate(t, turn[t].q, ContextBlock(top3), stale)
     ELSE /\ warn' = "ragerr"
          /\ BeginGenerate(t, turn[t].q, NoContext, FALSE)
  /\ UNCHANGED <<wllama, rt, selector, btnLoad, docState, loader, ix, left>>
  /\ UNCHANGED chunkVars

\* main.js:450-465: setOptions({embeddings: false}) returned, and
\* createChatCompletion is issued inside the try
GenSetOptOk(t) ==
  /\ turn[t].pc = "gen_setopt"
  /\ rt' = [rt EXCEPT ![turn[t].on].emb = FALSE]
  /\ IF wllama # "null"
     THEN /\ turn' = [turn EXCEPT ![t] = [@ EXCEPT !.pc = "gen_create", !.on = wllama]]
          /\ UNCHANGED <<abortController, btnStop, btnSend, messages>>
     ELSE Catch(t, messages, abortController)
  /\ UNCHANGED <<wllama, selector, btnLoad, aborted, docState, warn, loader, ix, left>>
  /\ UNCHANGED chunkVars

\* main.js:451: setOptions({embeddings: false}) threw; the await is outside
\* the try, so runChatTurn rejects and neither catch nor finally runs
GenSetOptThrow(t) ==
  /\ turn[t].pc = "gen_setopt"
  /\ turn' = [turn EXCEPT ![t] = [IdleTurn EXCEPT !.div = turn[t].div, !.last = "rejected"]]
  /\ UNCHANGED <<wllama, rt, selector, btnLoad, btnSend, btnStop, abortController,
                 aborted, docState, messages, warn, loader, ix, left>>
  /\ UNCHANGED chunkVars

\* main.js:455-475: createChatCompletion returned the stream, or threw
GenCreateDone(t, ok) ==
  /\ turn[t].pc = "gen_create"
  /\ ok => ~aborted[t]
  /\ IF ok
     THEN /\ turn' = [turn EXCEPT ![t] = [@ EXCEPT !.pc = "stream"]]
          /\ UNCHANGED <<abortController, btnStop, btnSend, messages>>
     ELSE Catch(t, messages, abortController)
  /\ UNCHANGED <<wllama, rt, selector, btnLoad, aborted, docState, warn, loader, ix, left>>
  /\ UNCHANGED chunkVars

\* currentText of a chunk that has none (undefined)
NoText == <<"undefined">>

\* main.js:441 and 478: decoder.decode(bytes, {stream: true}) of a UTF-8
\* TextDecoder holding the bytes `pend` of an unfinished character. Bytes:
\* "H" leads a two-byte character, "L" continues one, any other is a
\* one-byte character; "e2" is the two-byte character, "fffd" the replacement
\* character. The result is the text decoded and the bytes still held.
RECURSIVE Decode(_, _)
Decode(pend, bytes) ==
  IF bytes = <<>> THEN [out |-> <<>>, pend |-> pend]
  ELSE LET b == Head(bytes)
           bad == IF pend # <<>> THEN <<"fffd">> ELSE <<>>
           step == IF b = "H" THEN [out |-> bad, pend |-> <<"H">>]
                   ELSE IF b = "L"
                   THEN [out |-> IF pend # <<>> THEN <<"e2">> ELSE <<"fffd">>,
                         pend |-> <<>>]
                   ELSE [out |-> bad \o <<b>>, pend |-> <<>>]
           rest == Decode(step.pend, Tail(bytes))
       IN [out |-> step.out \o rest.out, pend |-> rest.pend]

\* Consume with a cumulative text always taken, longer or not
ConsumeReplaces(acc, pend, chunk) ==
  IF Len(chunk.piece) > 0
  THEN LET d == Decode(pend, chunk.piece) IN [acc |-> acc \o d.out, pend |-> d.pend]
  ELSE IF chunk.currentText # NoText
  THEN [acc |-> chunk.currentText, pend |-> pend]
  ELSE [acc |-> acc, pend |-> pend]

\* main.js:476-482: acc, and the bytes the decoder holds, after one chunk
Consume(acc, pend, chunk) ==
  IF Len(chunk.piece) > 0
  THEN LET d == Decode(pend, chunk.piece) IN [acc |-> acc \o d.out, pend |-> d.pend]
  ELSE IF chunk.currentText # NoText /\ Len(chunk.currentText) > Len(acc)
  THEN [acc |-> chunk.currentText, pend |-> pend]
  ELSE [acc |-> acc, pend |-> pend]

\* main.js:476-482: acc after one chunk of the stream, the k-th the runtime
\* yields: a byte delta (piece), the cumulative text (currentText), or neither
Accumulate(acc, kind, k) ==
  LET piece == IF kind = "piece" THEN <<Tok(k)>> ELSE <<>>
      currentText == IF kind = "currentText" THEN [j \in 1..k |-> Tok(j)] ELSE NoText
  IN Consume(acc, <<>>, [piece |-> piece, currentText |-> currentText]).acc

\* main.js:475-489: one chunk of the stream is consumed
StreamChunk(t, kind) ==
  /\ turn[t].pc = "stream"
  /\ ~aborted[t]
  /\ turn[t].n < MaxStream
  /\ LET acc == Accumulate(turn[t].acc, kind, turn[t].n + 1)
     IN turn' = [turn EXCEPT ![t] =
                   [@ EXCEPT !.n = @ + 1, !.acc = acc,
                             !.div = IF Len(acc) > 0 THEN [text |-> acc, mark |-> "none"]
                                     ELSE @]]
  /\ UNCHANGED <<wllama, rt, selector, btnLoad, btnSend, btnStop, abortController,
                 aborted, docState, messages, warn, loader, ix, left>>
  /\ UNCHANGED chunkVars

\* the chunks a stream is fed with: a byte delta, a cumulative text, both or
\* neither
StreamChunks ==
  [piece : {<<>>, <<"a">>, <<"H">>, <<"L">>, <<"H", "L">>},
   currentText : {NoText, <<>>, <<"a">>, <<"a", "e2">>, <<"a", "e2", "a">>}]

\* main.js:475-489: one chunk of the stream is consumed, any chunk
Feed(t, chunk) ==
  /\ turn[t].pc = "stream"
  /\ ~aborted[t]
  /\ turn[t].n < MaxFeed
  /\ LET r == Consume(turn[t].acc, turn[t].pend, chunk)
     IN turn' = [turn EXCEPT ![t] =
                   [@ EXCEPT !.n = @ + 1, !.acc = r.acc, !.pend = r.pend,
                             !.div = IF Len(r.acc) > 0
                                     THEN [text |-> r.acc, mark |-> "none"]
                                     ELSE @]]
  /\ UNCHANGED <<wllama, rt, selector, btnLoad, btnSend, btnStop, abortController,
                 aborted, docState, messages, warn, loader, ix, left>>
  /\ UNCHANGED chunkVars

\* main.js:497-511: the stream ended; the fallback request is issued, or the
\* turn completes
StreamEnd(t) ==
  /\ turn[t].pc = "stream"
  /\ IF Len(turn[t].acc) = 0
     THEN IF abortController = 0
          THEN Catch(t, messages, abortController)      \* null.signal throws
          ELSE IF ~aborted[abortController]
          THEN IF wllama # "null"
               THEN /\ turn' = [turn EXCEPT ![t] = [@ EXCEPT !.pc = "fallback", !.on = wllama]]
                    /\ UNCHANGED <<abortController, btnStop, btnSend, messages>>
               ELSE Catch(t, messages, abortController)
          ELSE Complete(t, messages, turn[t].acc)
     ELSE Complete(t, messages, turn[t].acc)
  /\ UNCHANGED <<wllama, rt, selector, btnLoad, aborted, docState, warn, loader, ix, left>>
  /\ UNCHANGED chunkVars

\* main.js:475 and 512-520: the iteration of the stream threw
StreamThrow(t) ==
  /\ turn[t].pc = "stream"
  /\ Catch(t, messages, abortController)
  /\ UNCHANGED <<wllama, rt, selector, btnLoad, aborted, docState, warn, loader, ix, left>>
  /\ UNCHANGED chunkVars

\* main.js:499-511: the non-streaming completion returned, or threw
FallbackDone(t, ok) ==
  /\ turn[t].pc = "fallback"
  /\ IF ok
     THEN Finally(t, Append(messages, AssistantMsg(FallbackText)),
                  [text |-> FallbackText, mark |-> "none"], "completed")
     ELSE Catch(t, messages, abortController)
  /\ UNCHANGED <<wllama, rt, selector, btnLoad, aborted, docState, warn, loader, ix, left>>
  /\ UNCHANGED chunkVars

\* main.js:195-197: a click on btnStop
Stop ==
  /\ ~btnStop
  /\ abortController # 0
  /\ ~aborted[abortController]
  /\ aborted' = [aborted EXCEPT ![abortController] = TRUE]
  /\ turn' = [turn EXCEPT ![abortController] =
                [@ EXCEPT !.stopAt = IF @ = NotStopped /\ turn[abortController].pc \in Generating
                                     THEN turn[abortController].acc ELSE @]]
  /\ UNCHANGED <<wllama, rt, selector, btnLoad, btnSend, btnStop, abortController,
                 docState, messages, warn, loader, ix, left>>
  /\ UNCHANGED chunkVars

----------------------------------------------------------------------------
(* Specifications *)

\* the ranking on its own has not been started
RankOff == [pc |-> "off", q |-> <<>>, embs |-> <<>>, scores |-> <<>>,
            top3 |-> <<>>, threw |-> FALSE]

\* ensureChunkSize and processChunkSafe on their own have not been started
SafeOff == [pc |-> "off", chunks |-> <<>>, stack |-> <<>>, validated |-> <<>>,
            total |-> 0, todo |-> <<>>, cur |-> <<>>, calls |-> 0,
            reports |-> <<>>, safe |-> <<>>, stored |-> <<>>,
            splits |-> 0, fails |-> 0]

\* the two overlapping uploads have not been started
UpOff == [run |-> <<>>, docState |-> EmptyDoc]

\* runConcurrent on its own has not been started
RunOff == [pc |-> "off", n |-> 0, limit |-> 0, next |-> 0, running |-> {},
           executing |-> {}, rejected |-> {}, started |-> <<>>,
           finished |-> <<>>, results |-> <<>>]

ChunkTextOff ==
  /\ text = <<>>
  /\ size = 0
  /\ overlap = 0
  /\ ci = 0
  /\ chunks = <<>>
  /\ windows = <<>>
  /\ dropped = FALSE
  /\ cpc = "off"
  /\ result = <<>>

ChunkOff ==
  /\ ChunkTextOff
  /\ rk = RankOff
  /\ sx = SafeOff
  /\ rc = RunOff
  /\ up = UpOff

Init == ChunkOff /\ PageInit

Next ==
  \/ \E m \in Models : SelectModel(m)
  \/ \E listed \in BOOLEAN : RefreshDone(listed)
  \/ \E l \in ClickLoaders : LoadClick(l)
  \/ \E l \in Loaders : ExitDone(l)
  \/ \E l \in Loaders : LoadOk(l)
  \/ \E l \in Loaders : LoadFail(l)
  \/ \E d \in Docs : Upload(d)
  \/ \E ok \in BOOLEAN : ExtractDone(ok)
  \/ \E ok \in BOOLEAN : TokenizeDone(ok)
  \/ \E ok \in BOOLEAN : IxSetOptDone(ok)
  \/ \E ok \in BOOLEAN : EmbedDone(ok)
  \/ \E t \in Slots : Submit(t)
  \/ \E t \in Slots, ok \in BOOLEAN : RetrSetOptDone(t, ok)
  \/ \E t \in Slots, ok \in BOOLEAN : RetrEmbedDone(t, ok)
  \/ \E t \in Slots : GenSetOptOk(t)
  \/ \E t \in Slots : GenSetOptThrow(t)
  \/ \E t \in Slots, ok \in BOOLEAN : GenCreateDone(t, ok)
  \/ \E t \in Slots, kind \in {"piece", "currentText", "none"} : StreamChunk(t, kind)
  \/ \E t \in Slots : StreamEnd(t)
  \/ \E t \in Slots : StreamThrow(t)
  \/ \E t \in Slots, ok \in BOOLEAN : FallbackDone(t, ok)
  \/ Stop

Spec == Init /\ [][Next]_vars

\* the page while the stream of its first turn is consumed: the model was
\* loaded on start-up and a text was sent with no document indexed
StreamInit ==
  /\ ChunkOff
  /\ wllama = "auto"
  /\ rt = [l \in Loaders |->
             [model |-> IF l = "auto" THEN "mA" ELSE "none", emb |-> FALSE,
              exited |-> FALSE, batch |-> IF l = "auto" THEN DefaultNBatch ELSE ""]]
  /\ selector = "mA"
  /\ btnLoad = FALSE
  /\ btnSend = TRUE
  /\ btnStop = FALSE
  /\ abortController = 1
  /\ aborted = [t \in Slots |-> FALSE]
  /\ docState = EmptyDoc
  /\ messages = <<SystemMsg, UserMsg(QueryOf(1), NoContext)>>
  /\ warn = ""
  /\ turn = [t \in Slots |->
               IF t = 1 THEN [IdleTurn EXCEPT !.pc = "stream", !.q = QueryOf(1),
                                              !.on = "auto"]
               ELSE IdleTurn]
  /\ loader = [l \in Loaders |-> [pc |-> "idle", url |-> "", target |-> "null"]]
  /\ ix = IdleIx
  /\ left = [turns |-> 0, loads |-> 1, uploads |-> MaxEvents - 2]

NextStream ==
  \/ \E chunk \in StreamChunks : Feed(1, chunk)
  \/ StreamEnd(1)
  \/ StreamThrow(1)
  \/ \E ok \in BOOLEAN : FallbackDone(1, ok)

SpecStream == StreamInit /\ [][NextStream]_vars

ChunkStart ==
  /\ rk = RankOff
  /\ sx = SafeOff
  /\ rc = RunOff
  /\ up = UpOff
  /\ ci = 0
  /\ chunks = <<>>
  /\ windows = <<>>
  /\ dropped = FALSE
  /\ cpc = "loop"
  /\ result = <<>>

\* long texts, default parameters
ChunkInitLong ==
  /\ text \in LongTexts
  /\ size = DefaultSize
  /\ overlap = DefaultOverlap
  /\ ChunkStart

\* short texts, default parameters and size = 20, overlap = 5
ChunkInitShort ==
  /\ text \in ShortTexts
  /\ \E pr \in {<<20, 5>>, <<DefaultSize, DefaultOverlap>>} :
        size = pr[1] /\ overlap = pr[2]
  /\ ChunkStart

ChunkInit == (ChunkInitLong \/ ChunkInitShort) /\ PageStart(NoBudget)

NextChunk == ChunkIter \/ ChunkReturn

SpecChunk == ChunkInit /\ [][NextChunk]_vars

\* the short inputs only
ChunkInitFair == ChunkInitShort /\ PageStart(NoBudget)

\* The loop is a sequential program: it takes its next step whenever it has
\* one.
SpecChunkShortFair == ChunkInitFair /\ [][NextChunk]_vars /\ WF_vars(NextChunk)

----------------------------------------------------------------------------
(* Properties of chunkText *)

\* the window of chunk k as substring reads it: 0-based positions lo..hi-1
WinLo(k) ==
  LET a == ClampIdx(windows[k][1], Len(text))
      b == ClampIdx(windows[k][2], Len(text))
  IN IF a <= b THEN a ELSE b

WinHi(k) ==
  LET a == ClampIdx(windows[k][1], Len(text))
      b == ClampIdx(windows[k][2], Len(text))
  IN IF a <= b THEN b ELSE a

\* the 0-based position p of the input lies in window k
InWindow(p, k) == WinLo(k) <= p /\ p < WinHi(k)

SolidPositions == {p \in 0..(Len(text) - 1) : text[p + 1] \notin Whitespace}

Returned(c) == \E j \in 1..Len(result) : result[j] = c

\* C2 (as stated): every iteration of the loop leaves the cursor strictly
\* greater than it found it, so the loop runs at most text.length times.
C2_CursorAdvances == [][ChunkIter => ci' > ci]_vars

\* C5 (as stated): every window after the first starts exactly `overlap`
\* characters before the cut point of its predecessor, clamped to 0.
C5_WindowsOverlap ==
  \A k \in 2..Len(windows) :
    windows[k][1] =
      (IF windows[k - 1][2] - overlap < 0 THEN 0 ELSE windows[k - 1][2] - overlap)

\* C6 (as stated): every non-whitespace character position of the input lies
\* inside at least one returned fragment.
C6_AllCovered ==
  (cpc = "done" /\ ~dropped) =>
    LET Kept == {k \in 1..Len(windows) : Returned(chunks[k])}
        Covered == UNION {WinLo(k)..(WinHi(k) - 1) : k \in Kept}
    IN SolidPositions \subseteq Covered

\* C6 (amended): every chunk is its trimmed window, and every non-whitespace
\* character position of the input lies inside a window whose chunk is
\* returned unless its trimmed length is at most 10.
C6_CoveredUpToFilter ==
  (cpc = "done" /\ ~dropped) =>
    LET Good == {k \in 1..Len(windows) :
                   Len(chunks[k]) > MinFragment => Returned(chunks[k])}
        Covered == UNION {WinLo(k)..(WinHi(k) - 1) : k \in Good}
    IN /\ \A k \in 1..Len(windows) :
            chunks[k] = trim(SubSeq(text, WinLo(k) + 1, WinHi(k)))
       /\ SolidPositions \subseteq Covered

\* C6 witness: a finished run over several windows, one of them dropped by
\* the filter and at least two returned.
C6_Witness ==
  /\ cpc = "done" /\ ~dropped
  /\ Len(result) >= 2
  /\ Len(result) < Len(chunks)
  /\ \E k \in 1..Len(chunks) : chunks[k] # <<>> /\ ~Returned(chunks[k])

\* C7 (as stated): a text no longer than size whose trimmed length exceeds 10
\* yields exactly one fragment, the trimmed text.
C7_ShortTextOneFragment ==
  (cpc = "done" /\ Len(text) <= size /\ Len(trim(text)) > MinFragment) =>
    result = <<trim(text)>>

\* C8 (as stated): the run on the Paris example with size 20 and overlap 5
\* returns at least 2 fragments, and no returned fragment of any run is
\* longer than size + 20.
C8_ParisExample ==
  /\ [](cpc = "done" => \A j \in 1..Len(result) : Len(result[j]) <= size + LookAhead)
  /\ (text = ParisText /\ size = 20 /\ overlap = 5) =>
       <>(cpc = "done" /\ Len(result) >= 2)

----------------------------------------------------------------------------
(* Properties of the page *)

InFlight == {t \in Slots : turn[t].pc # "idle"}

\* C1 (as stated): whenever docState.embeddings is non-empty, docState.modelUrl
\* is the model that computed every stored embedding, and no chat turn ranks
\* its query embedding against an index of another model.
C1_NoStaleIndex ==
  /\ \A i \in 1..Len(docState.embeddings) :
       docState.embeddings[i].by = docState.modelUrl
  /\ \A t \in Slots : ~turn[t].stale

\* C3 (as stated): at most one chat turn is in flight, and while a turn is in
\* flight (Retrieving included) the send control is disabled.
C3_OneTurnInFlight ==
  /\ Cardinality(InFlight) <= 1
  /\ InFlight # {} => btnSend

\* C4 (as stated): a turn that ends has reached Completed, Cancelled or
\* Failed and leaves the send control enabled, the stop control disabled and
\* abortController null.
C4_TurnRestoresControls ==
  [][\A t \in Slots :
       (turn[t].pc # "idle" /\ turn'[t].pc = "idle") =>
         /\ turn'[t].last \in {"completed", "cancelled", "failed"}
         /\ ~btnSend'
         /\ btnStop'
         /\ abortController' = 0]_vars

\* C9: when a load of model u completes, then if the index holds a chunk and
\* docState.modelUrl differs from u, the embeddings become empty, the name,
\* chunks and modelUrl stay and the re-index warning is raised; otherwise the
\* index is unchanged.
C9_SwitchClearsEmbeddings ==
  [][\A l \in Loaders :
       (loader[l].pc = "load" /\ loader'[l].pc = "idle" /\ rt'[l].model = loader[l].url) =>
         IF Len(docState.chunks) > 0 /\ docState.modelUrl # loader[l].url
         THEN /\ docState'.embeddings = <<>>
              /\ docState'.chunks = docState.chunks
              /\ docState'.name = docState.name
              /\ docState'.modelUrl = docState.modelUrl
              /\ warn' = "reindex"
         ELSE docState' = docState]_vars

\* C9 witness: an index whose embeddings a load of another model has cleared
C9_Witness ==
  /\ Len(docState.chunks) > 0
  /\ docState.embeddings = <<>>
  /\ warn = "reindex"
  /\ \E l \in Loaders : rt[l].model \notin {"none", docState.modelUrl}

\* C10 (as stated): a turn stopped while its generation request is in flight
\* ends by appending to the history exactly the text accumulated when Stop
\* was pressed, as its assistant message.
C10_PartialTextKept ==
  [][\A t \in Slots :
       (turn[t].pc \in Generating /\ turn'[t].pc = "idle"
          /\ turn[t].stopAt # NotStopped) =>
         messages' = Append(messages, AssistantMsg(turn[t].stopAt))]_vars

\* C11 (as stated): a turn stopped while its generation request is in flight
\* ends Cancelled, its bubble showing the text accumulated when Stop was
\* pressed followed by the "[stopped]" marker.
C11_CancelEndsStopped ==
  [][\A t \in Slots :
       (turn[t].pc \in Generating /\ turn'[t].pc = "idle"
          /\ turn[t].stopAt # NotStopped) =>
         /\ turn'[t].last = "cancelled"
         /\ turn'[t].div = [text |-> turn[t].stopAt, mark |-> "stopped"]]_vars

\* C12 (as stated): when the stream of a turn ends, the fallback completion
\* is requested if and only if nothing was accumulated and the turn was not
\* cancelled; it is requested at no other point; its output bound and
\* temperature are below those of the streaming request; and its result
\* becomes the bubble's text and the assistant message of the history.
C12_FallbackOnce ==
  [][\A t \in Slots :
       /\ StreamEnd(t) =>
            (turn'[t].pc = "fallback" <=> (Len(turn[t].acc) = 0 /\ ~aborted[t]))
       /\ (turn[t].pc # "fallback" /\ turn'[t].pc = "fallback") => StreamEnd(t)
       /\ FallbackRequest.nPredict < StreamRequest.nPredict
       /\ FallbackRequest.temp < StreamRequest.temp
       /\ FallbackDone(t, TRUE) =>
            /\ turn'[t].div = [text |-> FallbackText, mark |-> "none"]
            /\ messages' = Append(messages, AssistantMsg(FallbackText))]_vars

\* C13: every chunk consumed leaves the accumulated text at least as long; a
\* non-empty piece appends its decoded text; with no piece, a cumulative text
\* strictly longer than the accumulated text replaces it and any other is
\* ignored; and the bubble is only ever set to the accumulated text.
C13_AccNeverShrinks ==
  [][\A t \in Slots : \A chunk \in StreamChunks :
       Feed(t, chunk) =>
         LET acc == turn[t].acc
             acc2 == turn'[t].acc
             cum == chunk.currentText
         IN /\ Len(acc2) >= Len(acc)
            /\ Len(chunk.piece) > 0 =>
                 acc2 = acc \o Decode(turn[t].pend, chunk.piece).out
            /\ (Len(chunk.piece) = 0 /\ cum # NoText /\ Len(cum) > Len(acc)) =>
                 acc2 = cum
            /\ (Len(chunk.piece) = 0 /\ (cum = NoText \/ Len(cum) <= Len(acc))) =>
                 acc2 = acc
            /\ turn'[t].div # turn[t].div =>
                 turn'[t].div = [text |-> acc2, mark |-> "none"]]_vars

\* C13 witness: MaxFeed chunks consumed and more characters accumulated than
\* pieces alone or cumulative texts alone can give: both forms were taken
C13_Witness ==
  /\ turn[1].pc = "stream"
  /\ turn[1].n = MaxFeed
  /\ Len(turn[1].acc) = 5
  /\ turn[1].div.text = turn[1].acc

\* C14: a submitted turn enters retrieval if and only if the index holds a
\* chunk and an embedding; with chunks and no embedding the warning is raised
\* and the turn goes on to generation with no context; with no chunk it goes
\* on to generation with no context and the warning untouched.
C14_RetrievalGate ==
  [][\A t \in Slots :
       Submit(t) =>
         LET hasChunk == Len(docState.chunks) > 0
             hasEmb == Len(docState.embeddings) > 0
             raw == UserMsg(QueryOf(left.turns), NoContext)
         IN /\ turn'[t].pc = "retr_setopt" <=> (hasChunk /\ hasEmb)
            /\ (hasChunk /\ ~hasEmb) =>
                 /\ warn' = "skipped"
                 /\ turn'[t].pc = "gen_setopt"
                 /\ turn'[t].ctx = NoContext
                 /\ messages' = Append(messages, raw)
            /\ ~hasChunk =>
                 /\ warn' = warn
                 /\ turn'[t].pc = "gen_setopt"
                 /\ turn'[t].ctx = NoContext
                 /\ messages' = Append(messages, raw)]_vars

\* C14 witness: a turn sent on to generation with the skip warning, the
\* index holding chunks and no embedding
C14_Witness ==
  \E t \in Slots :
    /\ turn[t].pc = "gen_setopt"
    /\ turn[t].retr = "none"
    /\ warn = "skipped"
    /\ Len(docState.chunks) > 0
    /\ docState.embeddings = <<>>

\* C15: the user message a turn appends to the history begins with the text
\* typed; the labelled block of the retrieved fragments follows it when the
\* query embedding was computed, and nothing follows it otherwise; the user
\* bubble shows the text typed alone.
C15_UserTextFirst ==
  [][\A t \in Slots :
       ((Submit(t) \/ \E ok \in BOOLEAN : RetrSetOptDone(t, ok) \/ RetrEmbedDone(t, ok))
          /\ messages' # messages) =>
         LET q == IF turn[t].pc = "idle" THEN QueryOf(left.turns) ELSE turn[t].q
             msg == messages'[Len(messages')]
         IN /\ Len(messages') = Len(messages) + 1
            /\ msg.role = "user"
            /\ Head(msg.text) = q
            /\ IF RetrEmbedDone(t, TRUE)
               THEN /\ Len(msg.text) >= 2
                    /\ msg.text[2] = ContextLabel
                    /\ \A i \in 3..Len(msg.text) :
                         \E j \in 1..Len(docState.chunks) : msg.text[i] = docState.chunks[j]
               ELSE msg.text = <<q>>
            /\ turn'[t].pc = "gen_setopt" => turn'[t].userDiv = <<q>>]_vars

\* C15 witness: the history holds a user message with two retrieved fragments
\* after the text typed
C15_Witness ==
  \E i \in 1..Len(messages) :
    /\ messages[i].role = "user"
    /\ Len(messages[i].text) = 4
    /\ messages[i].text[2] = ContextLabel

\* the pcs of the retrieval phase
Retrieving == {"retr_setopt", "retr_embed"}

\* C16 (as stated): a turn whose retrieval fails raises the warning, pushes
\* the raw user text with no context, goes on to generation, and its next
\* step issues the streamed completion request.
C16_RetrievalFailureNonFatal ==
  [][\A t \in Slots :
       /\ (turn[t].pc \in Retrieving /\ turn'[t].pc \notin Retrieving
             /\ messages'[Len(messages')].block = FALSE) =>
            /\ warn' = "ragerr"
            /\ messages' = Append(messages, UserMsg(turn[t].q, NoContext))
            /\ turn'[t].pc = "gen_setopt"
            /\ turn'[t].ctx = NoContext
       /\ (turn[t].pc = "gen_setopt" /\ turn[t].retr = "failed"
             /\ turn'[t].pc # "gen_setopt") =>
            turn'[t].pc = "gen_create"]_vars

\* C17 (as stated): a generation that throws in a turn that was not
\* cancelled ends Failed, its bubble showing the error, and appends nothing
\* to the history.
C17_FailureShowsError ==
  [][\A t \in Slots :
       (turn[t].pc \in Generating /\ turn'[t].pc = "idle"
          /\ turn'[t].last \in {"failed", "cancelled"} /\ ~aborted[t]) =>
         /\ turn'[t].last = "failed"
         /\ turn'[t].div.mark = "error"
         /\ messages' = messages]_vars

\* C18 (as stated): when a turn ends Failed the history is what it was when
\* the turn was submitted.
C18_FailedTurnLeavesNoTrace ==
  [][\A t \in Slots :
       (turn[t].pc \in Generating /\ turn'[t].pc = "idle"
          /\ turn'[t].last = "failed") =>
         Len(messages') = turn[t].base]_vars

\* C19: the history always begins with the system message, and every step
\* leaves the messages it held in place, unchanged.
C19_HistoryAppendOnly ==
  /\ [](Len(messages) >= 1 /\ messages[1] = SystemMsg)
  /\ [][/\ Len(messages') >= Len(messages)
        /\ SubSeq(messages', 1, Len(messages)) = messages]_vars

\* C19 witness: after a completed exchange, a turn that ended Failed with
\* its user message in the history
C19_Witness ==
  /\ Len(messages) >= 4
  /\ messages[2].role = "user"
  /\ messages[3].role = "assistant"
  /\ messages[Len(messages)].role = "user"
  /\ \E t \in Slots : turn[t].pc = "idle" /\ turn[t].last = "failed"
  /\ \A t \in Slots : turn[t].pc = "idle"

\* a step that ends an indexing run by replacing the index with the
\* fragments of the uploaded document and their embeddings
Replaced ==
  /\ \E ok \in BOOLEAN : IxSetOptDone(ok) \/ EmbedDone(ok)
  /\ ix'.pc = "idle"
  /\ docState'.name = ix.doc
  /\ Len(docState'.chunks) = Len(docState'.embeddings)
  /\ \A i \in 1..Len(docState'.chunks) :
       /\ docState'.embeddings[i].of = docState'.chunks[i]
       /\ \E j \in 1..Len(DocChunks(ix.doc)) : docState'.chunks[i] = DocChunks(ix.doc)[j]

\* a step in which indexing aborts: extraction, tokenization or the switch to
\* embedding mode threw
Aborted ==
  /\ \E ok \in BOOLEAN : ExtractDone(ok) \/ TokenizeDone(ok) \/ IxSetOptDone(ok)
  /\ ix'.pc = "idle"

\* a step in which a completed load of another model empties the embeddings
Invalidated ==
  /\ \E l \in Loaders : LoadOk(l)
  /\ docState' = [docState EXCEPT !.embeddings = <<>>]

\* C20 (as stated): docState changes only by whole replacement at the
\* successful end of an indexing run, and an indexing run that aborts leaves
\* it unchanged and raises the warning.
C20_IndexOnlyReplaced ==
  [][/\ docState' # docState => Replaced
     /\ Aborted => (docState' = docState /\ warn' = "pdferr")]_vars

\* C20 (amended): docState changes only by whole replacement at the
\* successful end of an indexing run or by the emptying of its embeddings
\* when a load of another model completes, and an indexing run that aborts
\* leaves it unchanged and raises the warning.
C20_IndexReplacedOrInvalidated ==
  [][/\ docState' # docState => (Replaced \/ Invalidated)
     /\ Aborted => (docState' = docState /\ warn' = "pdferr")]_vars

\* C20 witness: a turn embeds its query against the complete index of d1 while
\* the index of d2 is half built
C20_Witness ==
  /\ ix.pc = "embed" /\ ix.doc = "d2" /\ ix.k = 2 /\ Len(ix.embs) = 1
  /\ docState.name = "d1"
  /\ Len(docState.chunks) = 1 /\ Len(docState.embeddings) = 1
  /\ \E t \in Slots : turn[t].pc = "retr_embed"

\* the global runtime finished a load without a model: its load failed
LoadFailed ==
  /\ wllama # "null"
  /\ rt[wllama].model = "none"
  /\ loader[wllama].pc # "load"

\* C24 (as stated): a load that fails re-enables the load control and starts
\* no other load, and while the runtime left by a failed load is the global
\* one no chat turn and no indexing run starts.
C24_FailedLoadLeavesNoModel ==
  [][/\ \A l \in Loaders :
          LoadFail(l) =>
            /\ ~btnLoad'
            /\ \A o \in Loaders : loader'[o].pc = "load" => loader[o].pc = "load"
     /\ LoadFailed =>
          /\ \A t \in Slots : ~Submit(t)
          /\ \A d \in Docs : ~Upload(d)]_vars

\* the runtime calls in flight: embeddings() of the indexing run and of the
\* retrieval of a turn, tokenize() of the indexing run, and the completion
\* requests
IxEmbedding == ix.pc = "embed"
IxTokenizing == ix.pc = "tokenize"
TurnEmbedding(t) == turn[t].pc = "retr_embed"
TurnGenerating(t) == turn[t].pc \in Generating

\* C28 (as stated): while an embeddings() call is in flight the runtime it
\* was issued on is in embedding mode, and while a completion request is in
\* flight the runtime it was issued on is not.
C28_ModeMatchesCall ==
  /\ IxEmbedding => rt[ix.on].emb
  /\ \A t \in Slots :
       /\ TurnEmbedding(t) => rt[turn[t].on].emb
       /\ TurnGenerating(t) => ~rt[turn[t].on].emb

\* C29 (as stated): no unload or load of a model is in progress while a
\* tokenize, embed or generate call is in flight, and an embed call is in
\* flight together with no generate call and no other embed call.
C29_SessionExclusive ==
  LET loading == \E l \in Loaders : loader[l].pc \in {"exit", "load"}
      embeds == Cardinality({t \in Slots : TurnEmbedding(t)})
                  + (IF IxEmbedding THEN 1 ELSE 0)
      generating == \E t \in Slots : TurnGenerating(t)
  IN /\ loading => (~IxTokenizing /\ embeds = 0 /\ ~generating)
     /\ embeds <= 1
     /\ embeds = 1 => ~generating

----------------------------------------------------------------------------
(* The ranking of main.js:405-412 on its own, over vectors of any length *)

\* the most embeddings a ranked index holds
MaxEmb == 4

\* vectors wllama.embeddings can return: one and the same direction at two
\* magnitudes, other directions, and other dimensions
Vecs == {<<1, 0>>, <<1, 1>>, <<2, 2>>, <<-1, 0>>, <<1>>}

EmbeddingLists == UNION {[1..n -> Vecs] : n \in 1..MaxEmb}

\* the comparator b.score - a.score orders the scores consistently: no NaN
\* among them, or nothing but NaN and one value (then every comparison is 0)
ConsistentComparator(score) ==
  \/ \A i \in DOMAIN score : ~score[i].nan
  \/ \A i, j \in DOMAIN score : ~ScoreGreater(score[i], score[j])

Perms(n) == {f \in [1..n -> 1..n] : \A i, j \in 1..n : f[i] = f[j] => i = j}

\* what scores.sort(...) of main.js:411 can leave: with a comparator that is
\* not a consistent order the order is implementation-defined
SortOutcomes(score) ==
  IF ConsistentComparator(score) THEN {StableOrder(score)} ELSE Perms(Len(score))

RankInit ==
  /\ \E q \in Vecs : \E embs \in EmbeddingLists :
        rk = [pc |-> "rank", q |-> q, embs |-> embs, scores |-> <<>>,
              top3 |-> <<>>, threw |-> FALSE]
  /\ ChunkTextOff
  /\ sx = SafeOff
  /\ rc = RunOff
  /\ up = UpOff
  /\ PageStart(NoBudget)

\* main.js:405-412: map, sort, slice; nothing in it throws
Rank ==
  /\ rk.pc = "rank"
  /\ LET scores == [i \in 1..Len(rk.embs) |-> cosineSimilarity(rk.q, rk.embs[i])]
     IN \E sorted \in SortOutcomes(scores) :
          rk' = [rk EXCEPT !.pc = "done", !.scores = scores,
                           !.top3 = Slice3(sorted)]
  /\ UNCHANGED <<chunkTextVars, sx, rc, up>>
  /\ UNCHANGED pageVars

NextRank == Rank

SpecRank == RankInit /\ [][NextRank]_vars

Ranked == rk.pc = "done"

ScoreEqual(a, b) == ~a.nan /\ ~b.nan /\ a.num * b.den = b.num * a.den

Selected == {rk.top3[r] : r \in 1..Len(rk.top3)}

\* C22: the injected fragments are the first 3 (all, when there are fewer) of
\* the stored fragments ordered by falling score, fragments of which neither
\* has the greater score in fragment order
C22_RankedByScore ==
  Ranked =>
    LET n == Len(rk.embs)
        Precedes(i, j) == \/ ScoreGreater(rk.scores[i], rk.scores[j])
                          \/ ~ScoreGreater(rk.scores[j], rk.scores[i]) /\ i < j
    IN /\ Len(rk.top3) = (IF n < TopK THEN n ELSE TopK)
       /\ \A r, u \in 1..Len(rk.top3) : r < u => Precedes(rk.top3[r], rk.top3[u])
       /\ \A r \in 1..Len(rk.top3) : \A j \in (1..n) \ Selected :
             Precedes(rk.top3[r], j)

\* C23: when the query and a stored embedding differ in length the ranking
\* throws and no score is produced
C23_MismatchThrows ==
  (Ranked /\ \E i \in 1..Len(rk.embs) : Len(rk.embs[i]) # Len(rk.q))
     => rk.threw /\ rk.scores = <<>>

SameDimension == \A i \in 1..Len(rk.embs) : Len(rk.embs[i]) = Len(rk.q)

C27_CosineSymmetric ==
  Ranked =>
    \A i \in 1..Len(rk.embs) : Len(rk.embs[i]) = Len(rk.q) =>
       rk.scores[i] = cosineSimilarity(rk.embs[i], rk.q)

\* a score between two different directions, neither 0 nor 1
C27_Witness ==
  /\ Ranked
  /\ \E i \in 1..Len(rk.embs) :
        /\ Len(rk.embs[i]) = Len(rk.q)
        /\ rk.embs[i] # rk.q
        /\ ~rk.scores[i].nan
        /\ rk.scores[i].num # 0
        /\ rk.scores[i].num # rk.scores[i].den

----------------------------------------------------------------------------
(* ensureChunkSize and processChunkSafe, main.js:306-371, on the fragments
   chunkText returned; the texts still to handle are a stack, as the
   recursion takes the left half with all its parts before the right one *)

\* times tokenize reports more than TokenLimit tokens in one upload
MaxSplits == 2
\* times wllama.embeddings throws in one upload
MaxEmbedFails == 7
\* tokens a tokenizer makes of one character at most
MaxTokensPerChar == 4

TokenLimit == 300
HalfWindow == 50
GiveUpBelow == 10

\* n characters, spaces at the given positions and letters that tell the
\* positions apart
IndexText(n, spaces) ==
  [k \in 1..n |-> IF k \in spaces THEN " " ELSE <<"a", "b", "c">>[(k % 3) + 1]]

\* what chunkText returns: trimmed texts of more than 10 characters
IndexChunks ==
  {t \in {trim(IndexText(n, {k \in 1..n : q > 0 /\ k % q = 0})) :
             n \in {11, 12, 19, 20, 24, 80, 104, 120}, q \in {0, 7}}
         \cup {IndexText(80, {7})} :
     KeepFragment(t)}

\* the chunks of one upload: one chunk, or two short ones
IndexChunkLists ==
  {<<t>> : t \in IndexChunks}
    \cup {<<t, u>> : t, u \in {c \in IndexChunks : Len(c) <= 12}}

NonEmptyText(t) == t # <<>>

\* the halves in the wrong order
ensureChunkSizeSwapped(t) ==
  LET mid == Len(t) \div 2
  IN <<trim(substring(t, mid, Len(t))), trim(substring(t, 0, mid))>>

\* main.js:312-319: left and right of the space nearest to the middle
ensureChunkSizeHalves(t) ==
  LET mid == Len(t) \div 2
      searchWindow == substring(t, mid - HalfWindow, mid + HalfWindow)
      spaceRelative == lastIndexOf(searchWindow, <<" ">>)
      splitIdx == IF spaceRelative # -1 THEN mid - HalfWindow + spaceRelative ELSE mid
  IN <<trim(substring(t, 0, splitIdx)), trim(substring(t, splitIdx, Len(t)))>>

\* a retry of the whole text
processChunkSafeWhole(t) == <<t, <<>>>>

\* main.js:356-358
processChunkSafeHalves(t) ==
  LET mid == Len(t) \div 2
  IN <<trim(substring(t, 0, mid)), trim(substring(t, mid, Len(t)))>>

SafeInit ==
  /\ \E cs \in IndexChunkLists :
        sx = [SafeOff EXCEPT !.pc = "ensure", !.chunks = cs, !.stack = cs]
  /\ ChunkTextOff
  /\ rk = RankOff
  /\ rc = RunOff
  /\ up = UpOff
  /\ PageStart(NoBudget)

\* main.js:307-325: wllama.tokenize returned for the text on top
SafeTokenize(tooLarge) ==
  /\ sx.pc = "ensure"
  /\ sx.stack # <<>>
  /\ LET t == Head(sx.stack)
     IN IF tooLarge
        THEN /\ MaxTokensPerChar * Len(t) > TokenLimit
             /\ sx.splits < MaxSplits
             /\ sx' = [sx EXCEPT !.splits = @ + 1,
                         !.stack = SelectSeq(ensureChunkSizeHalves(t), NonEmptyText)
                                     \o Tail(sx.stack)]
        ELSE sx' = [sx EXCEPT !.validated = Append(@, t), !.stack = Tail(@)]
  /\ UNCHANGED <<chunkTextVars, rk, rc, up>>
  /\ UNCHANGED pageVars

\* main.js:331-371: every chunk is validated; the filter, setOptions, and
\* the embeddings call for the first of finalChunks
SafeSetOptions ==
  /\ sx.pc = "ensure"
  /\ sx.stack = <<>>
  /\ LET finalChunks == SelectSeq(sx.validated, NonEmptyText)
     IN sx' = [sx EXCEPT !.pc = "embed", !.total = Len(finalChunks),
                 !.cur = IF finalChunks = <<>> THEN <<>> ELSE Head(finalChunks),
                 !.stack = IF finalChunks = <<>> THEN <<>> ELSE <<Head(finalChunks)>>,
                 !.todo = IF finalChunks = <<>> THEN <<>> ELSE Tail(finalChunks)]
  /\ UNCHANGED <<chunkTextVars, rk, rc, up>>
  /\ UNCHANGED pageVars

\* main.js:380-384: tokenize or setOptions threw; docState is left as it was
SafeAbort ==
  /\ sx.pc = "ensure"
  /\ sx' = [sx EXCEPT !.pc = "failed", !.stack = <<>>]
  /\ UNCHANGED <<chunkTextVars, rk, rc, up>>
  /\ UNCHANGED pageVars

\* a progress report after every embeddings call
ChunkFinishedAlways(work) == TRUE

\* main.js:368: await processChunkSafe(chunk) returns
ChunkFinished(work) == work = <<>>

\* main.js:345-371: wllama.embeddings returned or threw for the text on top;
\* when nothing of the chunk is left, completed++ and the status line, and
\* runConcurrent goes on to the next of finalChunks
SafeEmbed(ok) ==
  /\ sx.pc = "embed"
  /\ sx.stack # <<>>
  /\ ~ok => sx.fails < MaxEmbedFails
  /\ LET t == Head(sx.stack)
         work == IF ok \/ Len(t) < GiveUpBelow THEN Tail(sx.stack)
                 ELSE SelectSeq(processChunkSafeHalves(t), NonEmptyText)
                        \o Tail(sx.stack)
         next == ChunkFinished(work) /\ sx.todo # <<>>
     IN sx' = [sx EXCEPT
                 !.safe = IF ok THEN Append(@, t) ELSE @,
                 !.fails = IF ok THEN @ ELSE @ + 1,
                 !.reports = IF ChunkFinished(work) THEN Append(@, Len(@) + 1) ELSE @,
                 !.calls = IF next THEN 0 ELSE @ + 1,
                 !.cur = IF next THEN Head(sx.todo) ELSE @,
                 !.stack = IF next THEN <<Head(sx.todo)>> ELSE work,
                 !.todo = IF next THEN Tail(@) ELSE @]
  /\ UNCHANGED <<chunkTextVars, rk, rc, up>>
  /\ UNCHANGED pageVars

\* main.js:373-379: docState.chunks = safeChunks
SafePublish ==
  /\ sx.pc = "embed"
  /\ sx.stack = <<>>
  /\ sx' = [sx EXCEPT !.pc = "done", !.stored = sx.safe]
  /\ UNCHANGED <<chunkTextVars, rk, rc, up>>
  /\ UNCHANGED pageVars

NextSafe ==
  \/ \E tooLarge \in BOOLEAN : SafeTokenize(tooLarge)
  \/ SafeSetOptions
  \/ SafeAbort
  \/ \E ok \in BOOLEAN : SafeEmbed(ok)
  \/ SafePublish

SpecSafe == SafeInit /\ [][NextSafe]_vars

\* C21: every fragment of the index an indexing run stored has more than 10
\* characters
C21_StoredFragmentsLong ==
  sx.pc = "done" => \A k \in 1..Len(sx.stored) : Len(sx.stored[k]) > MinFragment

\* C31: each bisection of ensureChunkSize produces two pieces that are both
\* shorter than the piece it splits
C31_HalvesShorter ==
  [][SafeTokenize(TRUE) =>
       LET t == Head(sx.stack)
           halves == ensureChunkSizeHalves(t)
       IN Len(halves[1]) < Len(t) /\ Len(halves[2]) < Len(t)]_vars

\* C32: a text of 10 characters or fewer whose embedding fails is dropped
\* without a retry, and no half of fewer than 10 characters is submitted to
\* the runtime
C32_FloorBeforeRetry ==
  /\ [][(SafeEmbed(FALSE) /\ Len(Head(sx.stack)) <= GiveUpBelow) =>
          \/ Len(sx'.stack) < Len(sx.stack)
          \/ Len(sx'.reports) > Len(sx.reports)]_vars
  /\ []((sx.pc = "embed" /\ sx.stack # <<>>) =>
          \/ Len(sx.reports) + Len(sx.todo) + 1 = sx.total /\ sx.calls = 0
          \/ Len(Head(sx.stack)) >= GiveUpBelow)

\* C33: a failed embedding is retried on strictly shorter texts only and
\* never ends the run, and the calls made for one chunk are no more than
\* its characters
C33_RecoveryBounded ==
  /\ [][SafeEmbed(FALSE) =>
          LET t == Head(sx.stack)
              halves == processChunkSafeHalves(t)
          IN /\ Len(halves[1]) < Len(t) /\ Len(halves[2]) < Len(t)
             /\ sx'.pc = "embed"]_vars
  /\ [](sx.calls <= Len(sx.cur))

\* the runtime rejected every call for a chunk of 24 characters: 7 calls,
\* nothing stored
C33_Witness ==
  /\ sx.pc = "done"
  /\ Len(sx.cur) = 24
  /\ sx.calls = 7
  /\ sx.stored = <<>>

\* C35: the progress reports of the embedding stage are 1, 2, ... in order,
\* never more than the number of size-corrected chunks, and all of them are
\* made when the stage is over
C35_ProgressCounts ==
  /\ sx.reports = [k \in 1..Len(sx.reports) |-> k]
  /\ Len(sx.reports) <= sx.total
  /\ sx.pc = "done" => Len(sx.reports) = sx.total

\* two size-corrected chunks, embeddings failed on the way, both reported
C35_Witness ==
  /\ sx.pc = "done"
  /\ sx.total = 2
  /\ sx.fails > 0
  /\ Len(sx.reports) = 2

RECURSIVE Flatten(_)
Flatten(ts) == IF ts = <<>> THEN <<>> ELSE Head(ts) \o Flatten(Tail(ts))

NotWhitespace(c) == c \notin Whitespace

\* C38: the pieces ensureChunkSize returned are non-empty and, put together
\* in their order, are the chunks but for whitespace
C38_NothingLost ==
  sx.pc \in {"embed", "done"} =>
    /\ \A k \in 1..Len(sx.validated) : sx.validated[k] # <<>>
    /\ SelectSeq(Flatten(sx.validated), NotWhitespace)
         = SelectSeq(Flatten(sx.chunks), NotWhitespace)

\* a chunk shorter than the search window was split
C38_Witness ==
  /\ sx.pc = "done"
  /\ Len(sx.chunks[1]) < 2 * HalfWindow
  /\ Len(sx.validated) >= 2

----------------------------------------------------------------------------
(* runConcurrent, main.js:260-273, on its own: item j stands for the call
   fn(items[j]), its promise p and the promise e chained to it *)

\* items handed to runConcurrent
MaxItems == 6

\* the limits of the two calls, main.js:331 and main.js:371
TokenizeLimit == 4
EmbedLimit == 1

RunInit ==
  /\ \E n \in 0..MaxItems : \E limit \in {TokenizeLimit, EmbedLimit} :
        rc = [RunOff EXCEPT !.pc = "loop", !.n = n, !.limit = limit, !.next = 1]
  /\ ChunkTextOff
  /\ rk = RankOff
  /\ sx = SafeOff
  /\ up = UpOff
  /\ PageStart(NoBudget)

\* a loop that never waits
RaceNever(length, limit) == FALSE

\* main.js:268
RaceNeeded(length, limit) == length >= limit

\* main.js:263-270: one pass of the loop body; Promise.race over an array
\* holding a rejected promise rejects, and runConcurrent with it
RunStart ==
  /\ rc.pc = "loop"
  /\ rc.next <= rc.n
  /\ LET executing == rc.executing \cup {rc.next}
     IN rc' = [rc EXCEPT !.running = @ \cup {rc.next},
                         !.executing = executing,
                         !.started = Append(@, rc.next),
                         !.next = @ + 1,
                         !.pc = IF RaceNeeded(Cardinality(executing), rc.limit)
                                THEN IF executing \cap rc.rejected # {}
                                     THEN "failed" ELSE "race"
                                ELSE "loop"]
  /\ UNCHANGED <<chunkTextVars, rk, sx, up>>
  /\ UNCHANGED pageVars

\* fn(items[j]) settles while the loop waits: fulfilled, e removes itself
\* from executing (main.js:266) and a pending race resolves; rejected, e
\* stays, and a pending race or Promise.all rejects
RunSettle(j, ok) ==
  /\ rc.pc \in {"race", "woken", "all", "failed"}
  /\ j \in rc.running
  /\ rc' = [rc EXCEPT !.running = @ \ {j},
                      !.finished = Append(@, j),
                      !.executing = IF ok THEN @ \ {j} ELSE @,
                      !.rejected = IF ok THEN @ ELSE @ \cup {j},
                      !.pc = IF ok THEN (IF @ = "race" THEN "woken" ELSE @)
                             ELSE (IF @ \in {"race", "all"} THEN "failed" ELSE @)]
  /\ UNCHANGED <<chunkTextVars, rk, sx, up>>
  /\ UNCHANGED pageVars

\* main.js:269: the await of the race returns
RunResume ==
  /\ rc.pc = "woken"
  /\ rc' = [rc EXCEPT !.pc = "loop"]
  /\ UNCHANGED <<chunkTextVars, rk, sx, up>>
  /\ UNCHANGED pageVars

\* main.js:272: the loop is over, Promise.all(results) is returned
RunLoopEnd ==
  /\ rc.pc = "loop"
  /\ rc.next > rc.n
  /\ rc' = [rc EXCEPT !.pc = IF rc.rejected # {} THEN "failed" ELSE "all"]
  /\ UNCHANGED <<chunkTextVars, rk, sx, up>>
  /\ UNCHANGED pageVars

\* Promise.all resolves with the values of the promises in the order of the
\* array results, into which they were pushed as they were started
RunReturn ==
  /\ rc.pc = "all"
  /\ rc.running = {}
  /\ rc' = [rc EXCEPT !.pc = "done", !.results = rc.started]
  /\ UNCHANGED <<chunkTextVars, rk, sx, up>>
  /\ UNCHANGED pageVars

NextRun ==
  \/ RunStart
  \/ \E j \in 1..MaxItems : \E ok \in BOOLEAN : RunSettle(j, ok)
  \/ RunResume
  \/ RunLoopEnd
  \/ RunReturn

SpecRun == RunInit /\ [][NextRun]_vars

\* the items whose call has settled
Settled == {rc.finished[k] : k \in 1..Len(rc.finished)}

\* C30: no more than limit calls of fn are in flight; the calls are started
\* in item order and the results are returned in item order; with the limit
\* of the embedding loop, a call is in flight only when the calls for all
\* earlier items have settled
C30_BoundedInOrder ==
  /\ Cardinality(rc.running) <= rc.limit
  /\ rc.started = [k \in 1..Len(rc.started) |-> k]
  /\ rc.pc = "done" => rc.results = [k \in 1..rc.n |-> k]
  /\ rc.limit = EmbedLimit =>
       \A j \in rc.running : \A i \in 1..(j - 1) : i \in Settled

\* the tokenization limit is reached, the loop waits and items are left
C30_Witness ==
  /\ rc.pc = "race"
  /\ rc.limit = TokenizeLimit
  /\ Cardinality(rc.running) = TokenizeLimit
  /\ rc.next <= rc.n

----------------------------------------------------------------------------
(* The model switch of loadModel, main.js:104-145 *)

\* the runtimes that hold a model
LoadedRuntimes == {l \in Loaders : rt[l].model # "none"}

\* C25: a loadModel invocation that finds a runtime issues its load only
\* from the end of its exit() on that runtime, whether exit() returned or
\* threw, and at no time do two runtimes hold a model
C25_ExitBeforeLoad ==
  /\ [][\A l \in Loaders :
          (loader[l].pc # "load" /\ loader'[l].pc = "load" /\ wllama # "null") =>
             /\ loader[l].pc = "exit"
             /\ rt'[loader[l].target].exited \/ loader[l].target = l]_vars
  /\ [](Cardinality(LoadedRuntimes) <= 1)

----------------------------------------------------------------------------
(* The published index, main.js:341-379 *)

----------------------------------------------------------------------------
(* The cut point of chunkText, main.js:213-224 *)

\* C36: a window that does not reach the end of the text is cut right after
\* the latest ". " between 100 characters before and 20 after the nominal cut
\* point, else after the latest newline there, else after the latest space,
\* else at the nominal cut point; the cut is within that range of the text
C36_CutAfterBreak ==
  (cpc = "loop" /\ ci < Len(text) /\ ci + size < Len(text)) =>
     LET LatestEnd(t, pat, from, to) ==
           LET ends == {e \in (from + Len(pat))..to :
                          SubSeq(t, e - Len(pat) + 1, e) = pat}
           IN IF ends = {} THEN -1 ELSE CHOOSE e \in ends : \A f \in ends : f <= e
         nominal == ci + size
         lo == IF nominal - LookBack < 0 THEN 0 ELSE nominal - LookBack
         hi == IF nominal + LookAhead > Len(text) THEN Len(text) ELSE nominal + LookAhead
         period == LatestEnd(text, <<".", " ">>, lo, hi)
         newline == LatestEnd(text, <<"\n">>, lo, hi)
         space == LatestEnd(text, <<" ">>, lo, hi)
         cut == CutPoint(text, ci, size)
     IN /\ cut = (IF period # -1 THEN period
                  ELSE IF newline # -1 THEN newline
                  ELSE IF space # -1 THEN space ELSE nominal)
        /\ nominal - LookBack <= cut
        /\ cut <= nominal + LookAhead

----------------------------------------------------------------------------
(* The batch size of loadModel, main.js:94-145 *)

\* C37: every runtime that loads or holds a model was given n_batch =
\* n_ubatch = 1024
C37_BatchIsDefault ==
  \A l \in Loaders :
     (loader[l].pc = "load" \/ rt[l].model # "none") => rt[l].batch = DefaultNBatch

----------------------------------------------------------------------------
(* The Stop control, main.js:195-197 and 436-527 *)

\* C39: while a generation request of a turn is in flight the Stop button is
\* enabled, abortController is the controller of that turn and its signal
\* was passed to the request; Stop is pressed to an effect only while a turn
\* is in flight
C39_StopAbortsGeneration ==
  /\ [](\A t \in Slots : TurnGenerating(t) =>
          /\ ~btnStop
          /\ abortController = t
          /\ turn[t].pc = "fallback" => FallbackRequest.abortSignal)
  /\ [][Stop => InFlight # {}]_vars

----------------------------------------------------------------------------
(* Two runs of pdfInput.onchange, main.js:280-385 *)

\* the invocations of the handler
UpRuns == {1, 2}
UpEnded == {"done", "failed"}

\* an invocation that has not been made; safe and embs are the arrays
\* safeChunks and embeddings of main.js:341-342, local to the invocation
UpIdle == [pc |-> "idle", doc |-> "", k |-> 0, safe |-> <<>>, embs |-> <<>>,
           during |-> FALSE]

UpInit ==
  /\ up = [run |-> [r \in UpRuns |-> UpIdle], docState |-> EmptyDoc]
  /\ ChunkTextOff
  /\ rk = RankOff
  /\ sx = SafeOff
  /\ rc = RunOff
  /\ PageStart(NoBudget)

\* main.js:280-286: a file is chosen while a runtime is loaded; nothing in the
\* handler looks at a run that is in progress. during: the run before this
\* one had not ended
UpUpload(r, d) ==
  /\ up.run[r].pc = "idle"
  /\ r = 2 => up.run[1].pc # "idle"
  /\ up' = [up EXCEPT !.run[r] =
              [UpIdle EXCEPT !.pc = "extract", !.doc = d,
                             !.during = (r = 2 /\ up.run[1].pc \notin UpEnded)]]
  /\ UNCHANGED <<chunkTextVars, rk, sx, rc>> /\ UNCHANGED pageVars

\* main.js:286-339 and 380-384: the awaits of the text extraction, of the
\* tokenize calls and of setOptions return in turn, or one throws and the
\* catch block leaves docState as it is
UpAwaitDone(r, ok) ==
  /\ up.run[r].pc \in {"extract", "tokenize", "setopt"}
  /\ up' = [up EXCEPT !.run[r].pc =
              IF ~ok THEN "failed"
              ELSE IF @ = "extract" THEN "tokenize"
              ELSE IF @ = "tokenize" THEN "setopt" ELSE "embed",
                      !.run[r].k = IF ok /\ up.run[r].pc = "setopt" THEN 1 ELSE @]
  /\ UNCHANGED <<chunkTextVars, rk, sx, rc>> /\ UNCHANGED pageVars

\* main.js:345-371: chunk k of run r was embedded, or given up, and it is not
\* the last one
UpEmbedDone(r, ok) ==
  /\ up.run[r].pc = "embed"
  /\ up.run[r].k < Len(DocChunks(up.run[r].doc))
  /\ LET c == DocChunks(up.run[r].doc)[up.run[r].k]
     IN up' = [up EXCEPT !.run[r].k = @ + 1,
                 !.run[r].safe = IF ok THEN Append(@, c) ELSE @,
                 !.run[r].embs = IF ok THEN Append(@, Embedding(selector, c)) ELSE @]
  /\ UNCHANGED <<chunkTextVars, rk, sx, rc>> /\ UNCHANGED pageVars

\* main.js:345-379: the last chunk of run r was embedded, or given up, and
\* the run assigns docState
UpPublish(r, ok) ==
  /\ up.run[r].pc = "embed"
  /\ up.run[r].k = Len(DocChunks(up.run[r].doc))
  /\ LET c == DocChunks(up.run[r].doc)[up.run[r].k]
         safe == IF ok THEN Append(up.run[r].safe, c) ELSE up.run[r].safe
         embs == IF ok THEN Append(up.run[r].embs, Embedding(selector, c))
                 ELSE up.run[r].embs
     IN up' = [up EXCEPT !.run[r].pc = "done", !.run[r].safe = safe,
                 !.run[r].embs = embs,
                 !.docState = [name |-> up.run[r].doc, chunks |-> safe,
                               embeddings |-> embs, modelUrl |-> selector]]
  /\ UNCHANGED <<chunkTextVars, rk, sx, rc>> /\ UNCHANGED pageVars

NextUp ==
  \/ \E r \in UpRuns : \E d \in Docs : UpUpload(r, d)
  \/ \E r \in UpRuns : \E ok \in BOOLEAN : UpAwaitDone(r, ok)
  \/ \E r \in UpRuns : \E ok \in BOOLEAN : UpEmbedDone(r, ok)
  \/ \E r \in UpRuns : \E ok \in BOOLEAN : UpPublish(r, ok)

SpecUp == UpInit /\ [][NextUp]_vars

\* C40: when a second PDF was uploaded during the run of a first one and
\* both runs have ended, the second one with an index, docState is the index
\* of the second upload; and every index published holds chunks and
\* embeddings of one document only
C40_LastUploadWins ==
  /\ (/\ up.run[2].during
      /\ up.run[1].pc \in UpEnded
      /\ up.run[2].pc = "done")
     => /\ up.docState.name = up.run[2].doc
        /\ up.docState.chunks = up.run[2].safe
        /\ up.docState.embeddings = up.run[2].embs
  /\ \A i \in 1..Len(up.docState.chunks) :
        /\ \E j \in 1..Len(DocChunks(up.docState.name)) :
              DocChunks(up.docState.name)[j] = up.docState.chunks[i]
        /\ up.docState.embeddings[i].of = up.docState.chunks[i]

====
